---- MODULE Spec2Model ----
(***************************************************************************)
(* RacingClient (src/RacingClient.py): the communication layer of the      *)
(* iRacing data API client.  The model follows one client instance through *)
(* calls of _get_resource (with _get_resource_or_link and _login inside)   *)
(* and of _get_chunks, called directly or by the public endpoint methods.  *)
(* Every network exchange is one step; the server's answer (or the         *)
(* transport's exception) is chosen nondeterministically.                  *)
(***************************************************************************)
EXTENDS Integers, Sequences, FiniteSets, TLC

VARIABLES
    authenticated,   \* self.authenticated
    pc,              \* position of the running call: "idle", "rol", "link", "chunks"
    op,              \* the private method the caller invoked last
    depth,           \* re-entries of _get_resource_or_link made by the running call
    request_url,     \* request_url of _get_resource
    resource_obj,    \* resource_obj of _get_resource when is_link
    chunks,          \* the manifest passed to _get_chunks
    list_of_chunks,  \* list_of_chunks of _get_chunks, as far as built
    log,             \* requests issued by the running (or last) call, in order
    outcome,         \* how the last call ended
    postsSinceDenied, \* history: login POSTs issued since the server last denied
                      \* authorization (a 401 on the endpoint GET, a login refused)
    okSince401,       \* history: logins that succeeded since the resolver last saw a 401
    method,          \* the public endpoint method called last, "none" when a
                     \* private method was called directly
    param,           \* whether that call supplied the method's required parameter
    export,          \* the export argument of that call
    result,          \* how the endpoint method ended
    printed,         \* whether the endpoint method printed its one-line diagnostic
    username,        \* self.username
    encoded_password, \* self.encoded_password
    _password,       \* history: the _password argument of the constructor
    cookie_exists,   \* whether the cookie file is there (os.path.exists)
    cookie_file,     \* the cookie_file argument of the _login call made last
    prev_get         \* history: how the endpoint GET of the resolve call before
                     \* the running one was answered: "401", "error", "other"

mvars == << method, param, export, result, printed >>

cvars == << username, encoded_password, _password, cookie_exists >>

vars == << authenticated, pc, op, depth, request_url, resource_obj, chunks,
           list_of_chunks, log, outcome, postsSinceDenied, okSince401,
           method, param, export, result, printed,
           username, encoded_password, _password, cookie_exists, cookie_file,
           prev_get >>

---------------------------------------------------------------------------
(* Bounds of the model *)

\* Longest chunk_file_names list tried.
MaxChunks == 2
\* Cap on the re-entries of _get_resource_or_link that the model follows.
MaxDepth == 2
\* Value at which the history counters of login POSTs saturate.
MaxPosts == 2

---------------------------------------------------------------------------
(* Program constants *)

HTTP_OK == 200
HTTP_UNAUTHORIZED == 401

base_url == "https://members-ng.iRacing.com"
LoginURL == "https://members-ng.iracing.com/auth"

---------------------------------------------------------------------------
(* JSON values as Python sees them after r.json() *)

\* a chunk manifest: the value of "chunk_info"
Manifest(base, names) == [base_download_url |-> base, chunk_file_names |-> names]
NoManifest == Manifest("", <<>>)

JList(items) ==
    [type |-> "list", items |-> items, keys |-> <<>>, link |-> "", authcode |-> FALSE,
     chunk_info |-> NoManifest]
JDict(keys, link, authcode) ==
    [type |-> "dict", items |-> <<>>, keys |-> keys, link |-> link, authcode |-> authcode,
     chunk_info |-> NoManifest]
\* the object {"chunk_info": m}
JChunked(m) ==
    [type |-> "dict", items |-> <<>>, keys |-> <<"chunk_info">>, link |-> "",
     authcode |-> FALSE, chunk_info |-> m]
\* a JSON number: neither subscriptable, nor iterable, and without .keys()
JNumber ==
    [type |-> "number", items |-> <<>>, keys |-> <<>>, link |-> "", authcode |-> FALSE,
     chunk_info |-> NoManifest]
\* Python's None
PyNone ==
    [type |-> "None", items |-> <<>>, keys |-> <<>>, link |-> "", authcode |-> FALSE,
     chunk_info |-> NoManifest]
\* a response body that is not JSON text (r.json() raises on it)
NotJSON ==
    [type |-> "notjson", items |-> <<>>, keys |-> <<>>, link |-> "", authcode |-> FALSE,
     chunk_info |-> NoManifest]

ChunkBase == "https://dl/"
ChunkNames == {"c1.json", "c2.json"}
\* the manifest the server puts under "chunk_info"
InfoManifests == {Manifest(ChunkBase, <<"c1.json", "c2.json">>)}

LinkURLs == {"https://x/y.json"}

Lists == {JList(<<>>), JList(<<"e1">>), JList(<<"e2">>)}
\* objects: the login answers {"authcode": ...} (truthy, falsy), which are also
\* the objects without a "link" key, and the link envelope {"link": url}
Dicts == {JDict(<<"authcode">>, "", TRUE), JDict(<<"authcode">>, "", FALSE)}
         \cup {JDict(<<"link">>, u, FALSE) : u \in LinkURLs}
Docs == Lists \cup Dicts \cup {JNumber}
Bodies == Docs \cup {NotJSON}

HasKey(d, k) == \E i \in 1..Len(d.keys) : d.keys[i] = k

---------------------------------------------------------------------------
(* What the transport (requests.Session) gives back *)

Statuses == {HTTP_OK, HTTP_UNAUTHORIZED, 500}

Response(status, body) == [kind |-> "response", exc |-> "", status |-> status, body |-> body]
Raised(exc) == [kind |-> "raise", exc |-> exc, status |-> 0, body |-> NotJSON]

Responses == {Response(s, b) : s \in Statuses, b \in Bodies}
\* session.get: requests wraps transport failures in requests.ConnectionError;
\* a transport that does not wrap them lets the builtin ConnectionError out.
GetResults == Responses \cup {Raised("requests.ConnectionError"), Raised("ConnectionError")}
\* session.post(..., timeout=5.0) can time out as well.
PostResults == GetResults \cup {Raised("requests.Timeout")}
\* what the GET of an endpoint or of its link can end in: the above, and the
\* document of a chunked endpoint
ChunkedDocs == {JChunked(m) : m \in InfoManifests}
ResourceResults == GetResults \cup {Response(HTTP_OK, d) : d \in ChunkedDocs}

---------------------------------------------------------------------------
(* The credential: _encode_password, lines 72-82.  Strings are sequences   *)
(* of characters.                                                          *)

\* str.lower() of one character of the alphabet tried
LowerChar(c) ==
    CASE c = "A" -> "a"
      [] c = "B" -> "b"
      [] c = "P" -> "p"
      [] OTHER -> c
\* str.lower()
Lower(str) == [i \in DOMAIN str |-> LowerChar(str[i])]

\* hashlib.sha256(...).digest() and base64.b64encode(...).decode('utf-8'):
\* one value for each argument, different for different arguments
sha256(bytes) == [sha256 |-> bytes]
b64encode(digest) == [b64 |-> digest]

\* Mutant of _encode_password: the username goes in as given.
_encode_passwordAsGiven(user, password) == b64encode(sha256(password \o user))

\* lines 81-82
_encode_password(user, password) == b64encode(sha256(password \o Lower(user)))

\* the constructor arguments tried
Usernames == {<<"A", "b">>, <<"a", "b">>}
Passwords == {<<"p">>, <<"P">>}
\* the arguments of the client of line 2045
SettingsUsername == <<"A", "b">>
SettingsPassword == <<"p">>

\* Mutant of PostData: the password field is left empty.
PostDataNoPassword(email, password) ==
    [email |-> email, password |-> b64encode(sha256(<<>>))]

\* line 99: the body of the login request
PostData(email, password) == [email |-> email, password |-> password]

\* a request that is not the login request
NoData == [email |-> <<>>, password |-> b64encode(sha256(<<>>))]

---------------------------------------------------------------------------
(* How a call ends *)

Pending == [kind |-> "pending", exc |-> "", value |-> PyNone]
Return(v) == [kind |-> "return", exc |-> "", value |-> v]
Raise(e, v) == [kind |-> "raise", exc |-> e, value |-> v]

LogEntry(verb, url, t) ==
    [method |-> verb, url |-> url, auth |-> authenticated, res |-> t,
     data |-> IF verb = "POST" THEN PostData(username, encoded_password) ELSE NoData]

Bump(n) == IF n < MaxPosts THEN n + 1 ELSE n

---------------------------------------------------------------------------
(* _build_url, line 123 *)
_build_url(endpoint) == base_url \o endpoint

Endpoints == {"/data/car/get", "/data/results/event_log"}

---------------------------------------------------------------------------
\* Mutant of _login: line 109 without the test of the status code.
_loginAnyStatus(t) ==
    IF t.kind = "raise"
    THEN [ok |-> FALSE,
          exc |-> IF t.exc \in {"requests.Timeout", "requests.ConnectionError"}
                  THEN "RuntimeError" ELSE t.exc,
          value |-> PyNone]
    ELSE IF t.body.type = "notjson"
    THEN [ok |-> FALSE, exc |-> "JSONDecodeError", value |-> PyNone]
    ELSE IF t.body.type # "dict"
    THEN [ok |-> FALSE, exc |-> "TypeError", value |-> PyNone]
    ELSE IF ~HasKey(t.body, "authcode")
    THEN [ok |-> FALSE, exc |-> "KeyError", value |-> PyNone]
    ELSE IF t.body.authcode
    THEN [ok |-> TRUE, exc |-> "", value |-> PyNone]
    ELSE [ok |-> FALSE, exc |-> "RuntimeError", value |-> t.body]

(* _login, lines 98-115, on what session.post gave: whether the session   *)
(* is logged in afterwards, and the exception raised otherwise.            *)
_login(t) ==
    IF t.kind = "raise"
    THEN \* lines 103-106; any other exception passes through
         [ok |-> FALSE,
          exc |-> IF t.exc \in {"requests.Timeout", "requests.ConnectionError"}
                  THEN "RuntimeError" ELSE t.exc,
          value |-> PyNone]
    ELSE IF t.body.type = "notjson"
    THEN \* line 108: r.json()
         [ok |-> FALSE, exc |-> "JSONDecodeError", value |-> PyNone]
    ELSE IF t.status # HTTP_OK
    THEN \* line 109 short-circuits, line 115
         [ok |-> FALSE, exc |-> "RuntimeError", value |-> t.body]
    ELSE IF t.body.type # "dict"
    THEN \* response_data['authcode'] on a list or a number
         [ok |-> FALSE, exc |-> "TypeError", value |-> PyNone]
    ELSE IF ~HasKey(t.body, "authcode")
    THEN [ok |-> FALSE, exc |-> "KeyError", value |-> PyNone]
    ELSE IF t.body.authcode
    THEN \* lines 112-113
         [ok |-> TRUE, exc |-> "", value |-> PyNone]
    ELSE \* line 115
         [ok |-> FALSE, exc |-> "RuntimeError", value |-> t.body]

\* line 113: the string that _login returns
LoggedIn ==
    [type |-> "str", items |-> <<>>, keys |-> <<>>, link |-> "", authcode |-> FALSE,
     chunk_info |-> NoManifest]

\* the cookie_file argument: None (written ""), or a path
NoCookieFile == ""
CookieFiles == {NoCookieFile, "cookies.txt"}

\* what a save or a load of the cookie jar can end in
Done == [kind |-> "done", exc |-> "", status |-> 0, body |-> NotJSON]
FileResults == {Done, Raised("OSError")}

\* lines 92-97: what is done with the cookie file before the request
CookieBefore(file, exists) ==
    IF file = NoCookieFile THEN "none"
    ELSE IF ~exists THEN "cookies.save"
    ELSE "cookies.load"

\* Mutant of SavesAfter: the jar is saved whether or not the login succeeded.
SavesAfterAlways(file, ok) == file # NoCookieFile

\* lines 109-111: whether the jar is saved after the request
SavesAfter(file, ok) == ok /\ file # NoCookieFile

\* Mutant of AuthAfterLogin: line 112 left out, the flag stays as it was.
AuthAfterLoginUnset(auth) == auth

\* line 112: the flag after a login that succeeded
AuthAfterLogin(auth) == TRUE

---------------------------------------------------------------------------
(* _get_resource_or_link, lines 133-149 *)

\* Mutant of NeedsLogin: the check of line 133 left out, nothing logs in.
NeedsLoginNever(auth) == FALSE

\* Mutant of NeedsLogin: every entry logs in, authenticated or not.
NeedsLoginAlways(auth) == TRUE

\* line 133: whether _login() is run before anything is fetched
NeedsLogin(auth) == ~auth

\* Mutant of AuthAfterGet: lines 139-141 left out.
AuthAfterGetKeep(t, auth) == auth

\* Mutant of AuthAfterGet: every status other than 200 clears the flag.
AuthAfterGetAnyError(t, auth) == IF t.status # HTTP_OK THEN FALSE ELSE auth

\* lines 139-141: the flag after the response was looked at
AuthAfterGet(t, auth) == IF t.status = HTTP_UNAUTHORIZED THEN FALSE ELSE auth

\* Mutant of IsLink: no envelope is recognised.
IsLinkNever(data) == FALSE

\* Mutant of IsLink: every object is taken for an envelope.
IsLinkAnyDict(data) == data.type = "dict"

\* line 146, for data a list or a dict
IsLink(data) == data.type # "list" /\ HasKey(data, "link")

\* lines 143-149, on the response of the GET of line 137: the pair
\* [resource_obj, is_link], or the exception
ResourceOrLink(t) ==
    IF t.status # HTTP_OK
    THEN \* line 144: raise RuntimeError(r.json())
         IF t.body.type = "notjson"
         THEN [exc |-> "JSONDecodeError", is_link |-> FALSE, data |-> PyNone, link |-> ""]
         ELSE [exc |-> "RuntimeError", is_link |-> FALSE, data |-> t.body, link |-> ""]
    ELSE IF t.body.type = "notjson"
    THEN \* line 145
         [exc |-> "JSONDecodeError", is_link |-> FALSE, data |-> PyNone, link |-> ""]
    ELSE IF t.body.type \notin {"list", "dict"}
    THEN \* line 146: data.keys() on a number
         [exc |-> "AttributeError", is_link |-> FALSE, data |-> PyNone, link |-> ""]
    ELSE IF IsLink(t.body)
    THEN \* line 147
         [exc |-> "", is_link |-> TRUE, data |-> PyNone, link |-> t.body.link]
    ELSE \* line 149
         [exc |-> "", is_link |-> FALSE, data |-> t.body, link |-> ""]

---------------------------------------------------------------------------
(* _get_resource, lines 163-169 *)

\* Mutant of LinkResult: the body of the second response is not handed back.
LinkResultNoReturn(t) ==
    IF t.body.type = "notjson"
    THEN [exc |-> "JSONDecodeError", data |-> PyNone]
    ELSE IF t.status # HTTP_OK
    THEN [exc |-> "RuntimeError", data |-> t.body]
    ELSE [exc |-> "", data |-> PyNone]

\* lines 164-166, on the response of the GET of line 163
LinkResult(t) ==
    IF t.body.type = "notjson"
    THEN [exc |-> "JSONDecodeError", data |-> PyNone]
    ELSE IF t.status # HTTP_OK
    THEN [exc |-> "RuntimeError", data |-> t.body]
    ELSE [exc |-> "", data |-> t.body]

\* Mutant of GetResourceExcept: the handler catches every exception.
GetResourceExceptAny(exc, value) == Return(PyNone)

\* lines 167-169: the handler around the whole resolution; it names the
\* builtin ConnectionError, which requests.ConnectionError does not derive from
GetResourceExcept(exc, value) ==
    IF exc = "ConnectionError" THEN Return(PyNone) ELSE Raise(exc, value)

---------------------------------------------------------------------------
(* _get_chunks, lines 177-182 *)

Manifests ==
    {Manifest(ChunkBase, names) :
        names \in UNION {[1..n -> ChunkNames] : n \in 0..MaxChunks}}

\* Mutant of ChunkUrls: the list starts with the base URL itself.
ChunkUrlsWithBase(m) ==
    [i \in 1..(Len(m.chunk_file_names) + 1) |->
        IF i = 1 THEN m.base_download_url
        ELSE m.base_download_url \o m.chunk_file_names[i - 1]]

\* line 178
ChunkUrls(m) ==
    [i \in 1..Len(m.chunk_file_names) |-> m.base_download_url \o m.chunk_file_names[i]]

\* what "for item in sublist" walks over: a list's items, a dict's keys
Iterable(d) == d.type \in {"list", "dict"}
IterItems(d) == IF d.type = "list" THEN d.items ELSE d.keys

\* Mutant of Flatten: the chunks are joined last to first.
RECURSIVE FlattenReversed(_)
FlattenReversed(ls) ==
    IF ls = <<>> THEN <<>> ELSE FlattenReversed(Tail(ls)) \o IterItems(Head(ls))

\* line 180
RECURSIVE Flatten(_)
Flatten(ls) ==
    IF ls = <<>> THEN <<>> ELSE IterItems(Head(ls)) \o Flatten(Tail(ls))

---------------------------------------------------------------------------
(* The public endpoint methods *)

\* get_car (274-293), league_get (537-561), league_membership (593-620),
\* results_get (1021-1054), result_event_log (1058-1091),
\* result_lap_data (1129-1177)
Methods == {"get_car", "league_get", "league_membership", "results_get",
            "result_event_log", "result_lap_data"}

\* the endpoint each of them resolves
EndpointOf(m) ==
    CASE m = "get_car" -> "/data/car/get"
      [] m = "league_get" -> "/data/league/get"
      [] m = "league_membership" -> "/data/league/membership"
      [] m = "results_get" -> "/data/results/get"
      [] m = "result_event_log" -> "/data/results/event_log"
      [] m = "result_lap_data" -> "/data/results/lap_data"

\* the methods with a parameter that their docstring requires (league_id,
\* subsession_id)
RequiresParam(m) ==
    m \in {"league_get", "results_get", "result_event_log", "result_lap_data"}

\* Mutant of ChecksParamBeforeTry: no method tests its parameter up front.
ChecksParamNowhere(m) == FALSE

\* the methods that test it: inside their try (line 549), or before it
\* (lines 1035, 1070, 1145)
ChecksParamInTry(m) == m \in {"league_get"}
ChecksParamBeforeTry(m) == m \in {"results_get", "result_event_log", "result_lap_data"}

\* the methods that hand raw_data["chunk_info"] to _get_chunks (lines 1085,
\* 1167)
Chunked(m) == m \in {"result_event_log", "result_lap_data"}

\* the chunked methods that call _get_chunks inside their try (line 1167)
ChunksInTry(m) == m \in {"result_lap_data"}

\* the methods that end in "return raw_data" (or "return chunks");
\* league_membership ends after its export (lines 617-620)
ReturnsData(m) == m # "league_membership"

\* an endpoint method is between its call and its end
MethodRunning == method # "none" /\ result.kind = "pending"

\* no call is under way and the result of the last one has been taken
AtRest == pc = "idle" /\ op = "none" /\ method = "none"

\* Mutant of MethodExcept: the method has no handler.
MethodExceptPropagates(exc, value) == [result |-> Raise(exc, value), printed |-> FALSE]

\* "except RuntimeError as error: print_error(...); return None" (lines 287-289):
\* how the method ends on an exception raised inside its try
MethodExcept(exc, value) ==
    IF exc = "RuntimeError"
    THEN [result |-> Return(PyNone), printed |-> TRUE]
    ELSE [result |-> Raise(exc, value), printed |-> FALSE]

\* Mutant of ChunksExcept: what _get_chunks raises is swallowed.
ChunksExceptNone(m, exc, value) == [result |-> Return(PyNone), printed |-> TRUE]

\* how a chunked method ends on an exception of _get_chunks: in the handler
\* of its try (lines 1167-1171), or with the exception (line 1085)
ChunksExcept(m, exc, value) ==
    IF ChunksInTry(m)
    THEN MethodExcept(exc, value)
    ELSE [result |-> Raise(exc, value), printed |-> FALSE]

\* raw_data["chunk_info"] (line 1085): the exception of the subscript, if any
ChunkInfoExc(raw_data) ==
    IF raw_data.type # "dict" THEN "TypeError"
    ELSE IF ~HasKey(raw_data, "chunk_info") THEN "KeyError"
    ELSE ""

\* raw_to_json (lines 225-237) for a client built with _files_root and
\* _json_folder (line 2045), on what the file system does: the exception that
\* leaves it, "" when it returns
FsResults == {"ok", "mkdir:PermissionError", "open:PermissionError",
              "dump:UnicodeEncodeError"}
raw_to_json(fs) ==
    IF fs = "mkdir:PermissionError"
    THEN "PermissionError"   \* line 226 stands before the try
    ELSE ""                  \* lines 232-237 print and go on

\* lines 291-293 (617-620, 1087-1091): the export and the return
ExportAndReturn(m, ex, data, fs) ==
    IF ex /\ raw_to_json(fs) # ""
    THEN Raise(raw_to_json(fs), PyNone)
    ELSE IF ReturnsData(m) THEN Return(data) ELSE Return(PyNone)

---------------------------------------------------------------------------
(* The initial state: __init__, lines 60-69 *)

\* the client built from _username and _password, nothing called yet
Constructed(user, password) ==
    /\ username = user
    /\ _password = password
    /\ encoded_password = _encode_password(user, password)
    /\ authenticated = FALSE
    /\ pc = "idle"
    /\ op = "none"
    /\ depth = 0
    /\ request_url = ""
    /\ resource_obj = ""
    /\ chunks = Manifest("", <<>>)
    /\ list_of_chunks = <<>>
    /\ log = <<>>
    /\ outcome = Pending
    /\ postsSinceDenied = 0
    /\ okSince401 = 0
    /\ method = "none"
    /\ param = TRUE
    /\ export = FALSE
    /\ result = Pending
    /\ printed = FALSE
    /\ cookie_file = NoCookieFile
    /\ prev_get = "other"

\* the client of line 2045; no cookie file is in use
Init ==
    /\ Constructed(SettingsUsername, SettingsPassword)
    /\ cookie_exists = FALSE

---------------------------------------------------------------------------
(* Steps of _get_resource *)

\* The caller invokes _get_resource(endpoint): line 158, then line 160
\* enters _get_resource_or_link.
CallGetResource ==
    /\ AtRest
    /\ \E endpoint \in Endpoints : request_url' = _build_url(endpoint)
    /\ pc' = "rol"
    /\ op' = "_get_resource"
    /\ depth' = 0
    /\ resource_obj' = ""
    /\ log' = <<>>
    /\ outcome' = Pending
    /\ chunks' = Manifest("", <<>>)
    /\ list_of_chunks' = <<>>
    /\ UNCHANGED << authenticated, postsSinceDenied, okSince401 >>
    /\ UNCHANGED mvars
    /\ UNCHANGED cvars
    /\ UNCHANGED cookie_file
    /\ UNCHANGED prev_get

\* Lines 133-135: not authenticated, so _login() is run; when it returns,
\* _get_resource_or_link is entered again, otherwise its exception ends the
\* call in the handler of _get_resource.
LoginAndReenter ==
    /\ pc = "rol"
    /\ NeedsLogin(authenticated)
    /\ depth < MaxDepth
    /\ \E t \in PostResults :
         LET r == _login(t) IN
           /\ log' = Append(log, LogEntry("POST", LoginURL, t))
           /\ postsSinceDenied' = IF t.kind = "response" /\ ~r.ok
                                  THEN 0 ELSE Bump(postsSinceDenied)
           /\ IF r.ok
              THEN /\ authenticated' = AuthAfterLogin(authenticated)
                   /\ okSince401' = Bump(okSince401)
                   /\ depth' = depth + 1
                   /\ pc' = "rol"
                   /\ outcome' = outcome
              ELSE /\ authenticated' = authenticated
                   /\ okSince401' = okSince401
                   /\ depth' = depth
                   /\ pc' = "idle"
                   /\ outcome' = GetResourceExcept(r.exc, r.value)
    /\ UNCHANGED << op, request_url, resource_obj, chunks, list_of_chunks >>
    /\ UNCHANGED mvars
    /\ UNCHANGED cvars
    /\ UNCHANGED cookie_file
    /\ UNCHANGED prev_get

\* Lines 137-149 and 160-162: the GET of the endpoint URL.
EndpointGet ==
    /\ pc = "rol"
    /\ ~NeedsLogin(authenticated)
    /\ \E t \in ResourceResults :
         /\ log' = Append(log, LogEntry("GET", request_url, t))
         /\ IF t.kind = "raise"
            THEN /\ authenticated' = authenticated
                 /\ pc' = "idle"
                 /\ outcome' = GetResourceExcept(t.exc, PyNone)
                 /\ UNCHANGED << resource_obj, postsSinceDenied, okSince401 >>
            ELSE LET r == ResourceOrLink(t) IN
                 /\ authenticated' = AuthAfterGet(t, authenticated)
                 /\ IF t.status = HTTP_UNAUTHORIZED
                    THEN postsSinceDenied' = 0 /\ okSince401' = 0
                    ELSE UNCHANGED << postsSinceDenied, okSince401 >>
                 /\ IF r.exc # ""
                    THEN /\ pc' = "idle"
                         /\ outcome' = GetResourceExcept(r.exc, r.data)
                         /\ resource_obj' = resource_obj
                    ELSE IF r.is_link
                    THEN /\ pc' = "link"
                         /\ outcome' = outcome
                         /\ resource_obj' = r.link
                    ELSE /\ pc' = "idle"
                         /\ outcome' = Return(r.data)
                         /\ resource_obj' = resource_obj
    /\ UNCHANGED << op, depth, request_url, chunks, list_of_chunks >>
    /\ UNCHANGED mvars
    /\ UNCHANGED cvars
    /\ UNCHANGED cookie_file
    /\ UNCHANGED prev_get

\* Lines 163-166: the GET of the link.
LinkGet ==
    /\ pc = "link"
    /\ \E t \in ResourceResults :
         /\ log' = Append(log, LogEntry("GET", resource_obj, t))
         /\ IF t.kind = "raise"
            THEN outcome' = GetResourceExcept(t.exc, PyNone)
            ELSE LET r == LinkResult(t) IN
                 outcome' = IF r.exc # "" THEN GetResourceExcept(r.exc, r.data)
                                         ELSE Return(r.data)
    /\ pc' = "idle"
    /\ UNCHANGED << authenticated, op, depth, request_url, resource_obj, chunks,
                    list_of_chunks, postsSinceDenied, okSince401 >>
    /\ UNCHANGED mvars
    /\ UNCHANGED cvars
    /\ UNCHANGED cookie_file
    /\ UNCHANGED prev_get

---------------------------------------------------------------------------
(* Steps of _get_chunks *)

\* The caller invokes _get_chunks(chunks): lines 177-178.
CallGetChunks ==
    /\ AtRest
    /\ \E m \in Manifests : chunks' = m
    /\ pc' = "chunks"
    /\ op' = "_get_chunks"
    /\ list_of_chunks' = <<>>
    /\ log' = <<>>
    /\ outcome' = Pending
    /\ depth' = 0
    /\ request_url' = ""
    /\ resource_obj' = ""
    /\ UNCHANGED << authenticated, postsSinceDenied, okSince401 >>
    /\ UNCHANGED mvars
    /\ UNCHANGED cvars
    /\ UNCHANGED cookie_file
    /\ UNCHANGED prev_get

\* Line 179, one turn of the comprehension: GET the next url, parse the body.
ChunkGet ==
    /\ pc = "chunks"
    /\ Len(list_of_chunks) < Len(ChunkUrls(chunks))
    /\ \E t \in GetResults :
         LET url == ChunkUrls(chunks)[Len(list_of_chunks) + 1] IN
         /\ log' = Append(log, LogEntry("GET", url, t))
         /\ IF t.kind = "raise"
            THEN /\ pc' = "idle"
                 /\ outcome' = Raise(t.exc, PyNone)
                 /\ list_of_chunks' = list_of_chunks
            ELSE IF t.body.type = "notjson"
            THEN /\ pc' = "idle"
                 /\ outcome' = Raise("JSONDecodeError", PyNone)
                 /\ list_of_chunks' = list_of_chunks
            ELSE /\ pc' = pc
                 /\ outcome' = outcome
                 /\ list_of_chunks' = Append(list_of_chunks, t.body)
    /\ UNCHANGED << authenticated, op, depth, request_url, resource_obj, chunks,
                    postsSinceDenied, okSince401 >>
    /\ UNCHANGED mvars
    /\ UNCHANGED cvars
    /\ UNCHANGED cookie_file
    /\ UNCHANGED prev_get

\* Lines 180-182, once every chunk is in.
ChunksOutput ==
    /\ pc = "chunks"
    /\ Len(list_of_chunks) = Len(ChunkUrls(chunks))
    /\ pc' = "idle"
    /\ outcome' = IF \A i \in 1..Len(list_of_chunks) : Iterable(list_of_chunks[i])
                  THEN Return(JList(Flatten(list_of_chunks)))
                  ELSE Raise("TypeError", PyNone)
    /\ UNCHANGED << authenticated, op, depth, request_url, resource_obj, chunks,
                    list_of_chunks, log, postsSinceDenied, okSince401 >>
    /\ UNCHANGED mvars
    /\ UNCHANGED cvars
    /\ UNCHANGED cookie_file
    /\ UNCHANGED prev_get

---------------------------------------------------------------------------
(* Steps of the endpoint methods *)

\* The caller invokes an endpoint method.  A required parameter that is
\* missing ends it at once (lines 549-554, 1035-1036); otherwise the method
\* calls _get_resource (line 285).
CallMethod ==
    /\ AtRest
    /\ \E m \in Methods, ex \in BOOLEAN :
       \E given \in IF RequiresParam(m) THEN BOOLEAN ELSE {TRUE} :
         /\ method' = m
         /\ param' = given
         /\ export' = ex
         /\ log' = <<>>
         /\ outcome' = Pending
         /\ depth' = 0
         /\ resource_obj' = ""
         /\ chunks' = Manifest("", <<>>)
         /\ list_of_chunks' = <<>>
         /\ IF ChecksParamInTry(m) /\ ~given
            THEN /\ result' = MethodExcept("RuntimeError", PyNone).result
                 /\ printed' = MethodExcept("RuntimeError", PyNone).printed
                 /\ pc' = "idle"
                 /\ op' = "none"
                 /\ request_url' = ""
            ELSE IF ChecksParamBeforeTry(m) /\ ~given
            THEN /\ result' = Raise("RuntimeError", PyNone)
                 /\ printed' = FALSE
                 /\ pc' = "idle"
                 /\ op' = "none"
                 /\ request_url' = ""
            ELSE /\ result' = Pending
                 /\ printed' = FALSE
                 /\ pc' = "rol"
                 /\ op' = "_get_resource"
                 /\ request_url' = _build_url(EndpointOf(m))
    /\ UNCHANGED << authenticated, postsSinceDenied, okSince401 >>
    /\ UNCHANGED cvars
    /\ UNCHANGED cookie_file
    /\ UNCHANGED prev_get

\* _get_resource has ended inside an endpoint method: lines 287-293, and
\* line 1085 of the chunked methods, which enters _get_chunks.
MethodAfterResource ==
    /\ MethodRunning
    /\ pc = "idle"
    /\ op = "_get_resource"
    /\ outcome.kind # "pending"
    /\ IF outcome.kind = "raise"
       THEN /\ result' = MethodExcept(outcome.exc, outcome.value).result
            /\ printed' = MethodExcept(outcome.exc, outcome.value).printed
            /\ UNCHANGED << pc, op, chunks, list_of_chunks, log, outcome >>
       ELSE IF ~Chunked(method)
       THEN /\ \E fs \in FsResults :
                 result' = ExportAndReturn(method, export, outcome.value, fs)
            /\ UNCHANGED << printed, pc, op, chunks, list_of_chunks, log, outcome >>
       ELSE IF ChunkInfoExc(outcome.value) # ""
       THEN /\ result' = Raise(ChunkInfoExc(outcome.value), PyNone)
            /\ UNCHANGED << printed, pc, op, chunks, list_of_chunks, log, outcome >>
       ELSE /\ pc' = "chunks"
            /\ op' = "_get_chunks"
            /\ chunks' = outcome.value.chunk_info
            /\ list_of_chunks' = <<>>
            /\ log' = <<>>
            /\ outcome' = Pending
            /\ UNCHANGED << result, printed >>
    /\ UNCHANGED << authenticated, depth, request_url, resource_obj,
                    postsSinceDenied, okSince401, method, param, export >>
    /\ UNCHANGED cvars
    /\ UNCHANGED cookie_file
    /\ UNCHANGED prev_get

\* _get_chunks has ended inside a chunked endpoint method: lines 1085-1091,
\* 1167-1177.
MethodAfterChunks ==
    /\ MethodRunning
    /\ pc = "idle"
    /\ op = "_get_chunks"
    /\ outcome.kind # "pending"
    /\ IF outcome.kind = "raise"
       THEN /\ result' = ChunksExcept(method, outcome.exc, outcome.value).result
            /\ printed' = ChunksExcept(method, outcome.exc, outcome.value).printed
       ELSE /\ \E fs \in FsResults :
                 result' = ExportAndReturn(method, export, outcome.value, fs)
            /\ printed' = printed
    /\ UNCHANGED << authenticated, pc, op, depth, request_url, resource_obj, chunks,
                    list_of_chunks, log, outcome, postsSinceDenied, okSince401,
                    method, param, export >>
    /\ UNCHANGED cvars
    /\ UNCHANGED cookie_file
    /\ UNCHANGED prev_get

---------------------------------------------------------------------------
(* _login called on its own, lines 84-115 *)

\* The caller invokes _login(cookie_file).  The call is one step: the jar
\* is saved or loaded (lines 92-97), the request is posted (line 102), the
\* jar is saved (line 111), the flag is set (line 112); an exception at any
\* of these ends the call there.
CallLogin ==
    /\ AtRest
    /\ \E file \in CookieFiles, f1 \in FileResults, t \in PostResults,
          f2 \in FileResults :
         LET before == CookieBefore(file, cookie_exists)
             pre == IF before = "none" THEN <<>>
                    ELSE << LogEntry(before, file, f1) >>
             posted == Append(pre, LogEntry("POST", LoginURL, t))
             r == _login(t)
             there == cookie_exists \/ before = "cookies.save"
         IN  /\ cookie_file' = file
             /\ IF before # "none" /\ f1.kind = "raise"
                THEN /\ log' = pre
                     /\ outcome' = Raise(f1.exc, PyNone)
                     /\ UNCHANGED << authenticated, cookie_exists, postsSinceDenied,
                                     okSince401 >>
                ELSE /\ cookie_exists' = there
                     /\ postsSinceDenied' = IF t.kind = "response" /\ ~r.ok
                                            THEN 0 ELSE Bump(postsSinceDenied)
                     /\ IF ~SavesAfter(file, r.ok)
                        THEN /\ log' = posted
                             /\ outcome' = IF r.ok THEN Return(LoggedIn)
                                           ELSE Raise(r.exc, r.value)
                             /\ authenticated' = IF r.ok THEN AuthAfterLogin(authenticated)
                                                 ELSE authenticated
                             /\ okSince401' = IF r.ok THEN Bump(okSince401) ELSE okSince401
                        ELSE /\ log' = Append(posted, LogEntry("cookies.save", file, f2))
                             /\ IF f2.kind = "raise"
                                THEN /\ outcome' = Raise(f2.exc, PyNone)
                                     /\ UNCHANGED << authenticated, okSince401 >>
                                ELSE /\ outcome' = Return(LoggedIn)
                                     /\ authenticated' = AuthAfterLogin(authenticated)
                                     /\ okSince401' = Bump(okSince401)
    /\ pc' = "idle"
    /\ op' = "_login"
    /\ UNCHANGED << depth, request_url, resource_obj, chunks, list_of_chunks >>
    /\ UNCHANGED mvars
    /\ UNCHANGED << username, encoded_password, _password >>
    /\ UNCHANGED prev_get

---------------------------------------------------------------------------
(* The caller *)

\* how the GET of the endpoint URL (line 137) of the call that has ended was
\* answered; a call that resolved nothing leaves the note as it was
NotedGet ==
    IF op = "_get_resource"
    THEN IF \E i \in 1..Len(log) :
               /\ log[i].method = "GET"
               /\ log[i].url = request_url
               /\ log[i].res.kind = "response"
               /\ log[i].res.status = HTTP_UNAUTHORIZED
         THEN "401"
         ELSE IF \E i \in 1..Len(log) :
               /\ log[i].method = "GET"
               /\ log[i].url = request_url
               /\ log[i].res.kind = "response"
               /\ log[i].res.status # HTTP_OK
         THEN "error"
         ELSE "other"
    ELSE IF op = "_login" \/ (op = "_get_chunks" /\ method # "none")
    THEN "other"
    ELSE prev_get

\* A call has ended: the caller takes what it returned or raised
\* ("car = ir_client.get_car(export=True)", line 2049) and the locals of the
\* call are gone.  What stays is the client: its flag.
CallerTakesResult ==
    /\ pc = "idle"
    /\ ~AtRest
    /\ ~MethodRunning
    /\ op' = "none"
    /\ depth' = 0
    /\ request_url' = ""
    /\ resource_obj' = ""
    /\ chunks' = Manifest("", <<>>)
    /\ list_of_chunks' = <<>>
    /\ log' = <<>>
    /\ outcome' = Pending
    /\ method' = "none"
    /\ param' = TRUE
    /\ export' = FALSE
    /\ result' = Pending
    /\ printed' = FALSE
    /\ cookie_file' = NoCookieFile
    /\ prev_get' = NotedGet
    /\ UNCHANGED << pc, authenticated, postsSinceDenied, okSince401 >>
    /\ UNCHANGED cvars

---------------------------------------------------------------------------

Next ==
    \/ CallGetResource
    \/ LoginAndReenter
    \/ EndpointGet
    \/ LinkGet
    \/ CallGetChunks
    \/ ChunkGet
    \/ ChunksOutput
    \/ CallMethod
    \/ MethodAfterResource
    \/ MethodAfterChunks
    \/ CallerTakesResult

Spec == Init /\ [][Next]_vars

---------------------------------------------------------------------------
(* The client with any of the credentials tried, whose caller also calls   *)
(* _login with a cookie file; _get_chunks is entered from the chunked      *)
(* endpoint methods.                                                       *)

InitLogin ==
    /\ \E user \in Usernames, password \in Passwords : Constructed(user, password)
    /\ cookie_exists \in BOOLEAN

NextLogin ==
    \/ CallLogin
    \/ CallGetResource
    \/ LoginAndReenter
    \/ EndpointGet
    \/ LinkGet
    \/ ChunkGet
    \/ ChunksOutput
    \/ CallMethod
    \/ MethodAfterResource
    \/ MethodAfterChunks
    \/ CallerTakesResult

SpecLogin == InitLogin /\ [][NextLogin]_vars

---------------------------------------------------------------------------
(* The resolver alone, with every network call returning or raising: a     *)
(* step of the resolver that can be taken is taken.                        *)

NextResolve ==
    \/ CallGetResource
    \/ LoginAndReenter
    \/ EndpointGet
    \/ LinkGet
    \/ CallerTakesResult

SpecResolve ==
    /\ Init
    /\ [][NextResolve]_vars
    /\ WF_vars(LoginAndReenter)
    /\ WF_vars(EndpointGet)
    /\ WF_vars(LinkGet)

---------------------------------------------------------------------------
(* Notions the properties below are stated with *)

InResolve == op = "_get_resource"
InChunks == op = "_get_chunks"
Ended == pc = "idle" /\ outcome.kind # "pending"

IsGet(e) == e.method = "GET"
IsPost(e) == e.method = "POST"
GetEntries == SelectSeq(log, IsGet)
PostEntries == SelectSeq(log, IsPost)

\* the log entry is the GET of the endpoint URL
IsEndpointGet(e) == IsGet(e) /\ e.url = request_url
\* the transport answered with that status
Answered(e, status) == e.res.kind = "response" /\ e.res.status = status
\* a JSON object with a "link" key
HasLinkKey(d) == d.type = "dict" /\ \E i \in DOMAIN d.keys : d.keys[i] = "link"
\* the call handed a document back (not None)
ReturnedDoc == Ended /\ outcome.kind = "return" /\ outcome.value.type # "None"

---------------------------------------------------------------------------
(* C1: a GET of the endpoint URL is issued only while self.authenticated  *)
(* is true: every such GET in the log of a resolve call was sent with the  *)
(* flag set.                                                               *)
C1_GetOnlyWhenAuthenticated ==
    InResolve =>
        \A i \in 1..Len(log) : IsEndpointGet(log[i]) => log[i].auth

\* a call that had to log in first and then fetched the endpoint
C1_Witness ==
    /\ InResolve
    /\ Len(log) = 2
    /\ IsPost(log[1])
    /\ IsEndpointGet(log[2])

---------------------------------------------------------------------------
(* C2, as claimed: whenever _get_resource returns a document, the         *)
(* document is not a JSON object with a "link" key.                        *)
C2_NeverLinkObject ==
    (InResolve /\ ReturnedDoc) => ~HasLinkKey(outcome.value)

(* C2, amended: the document _get_resource returns is never the envelope  *)
(* of the endpoint response: it is the endpoint body only when that body   *)
(* is no envelope, and otherwise the body of the one follow-up GET of the  *)
(* envelope's link, handed back as it is.                                  *)
C2_EndpointEnvelopeNeverReturned ==
    (InResolve /\ ReturnedDoc) =>
        LET g == GetEntries IN
        /\ Len(g) >= 1
        /\ IsEndpointGet(g[1])
        /\ IF HasLinkKey(g[1].res.body)
           THEN /\ Len(g) = 2
                /\ g[2].url = g[1].res.body.link
                /\ outcome.value = g[2].res.body
           ELSE /\ Len(g) = 1
                /\ outcome.value = g[1].res.body

\* the endpoint answered with an envelope and the call returned the list
\* found behind the link
C2_Witness ==
    /\ InResolve
    /\ ReturnedDoc
    /\ Len(GetEntries) = 2
    /\ HasLinkKey(GetEntries[1].res.body)
    /\ outcome.value = JList(<<"e2">>)

---------------------------------------------------------------------------
(* C3: one call of _get_resource_or_link issues at most one login POST    *)
(* and enters itself again at most once, whatever the server answers.      *)
C3_OneLoginPerCall ==
    InResolve => (depth <= 1 /\ Len(PostEntries) <= 1)

\* a call that logged in, entered itself again and came back with a document
C3_Witness ==
    /\ InResolve
    /\ Ended
    /\ depth = 1
    /\ Len(PostEntries) = 1
    /\ outcome.kind = "return"

---------------------------------------------------------------------------
(* C4: when the endpoint GET of a resolve call answered 401, the flag     *)
(* self.authenticated is false once the call has ended.                    *)
C4_UnauthenticatedAfter401 ==
    (/\ InResolve
     /\ Ended
     /\ \E i \in 1..Len(log) :
            IsEndpointGet(log[i]) /\ Answered(log[i], HTTP_UNAUTHORIZED))
    => ~authenticated

\* a call whose endpoint GET was sent authenticated, answered 401, and raised
C4_Witness ==
    /\ InResolve
    /\ Ended
    /\ outcome.kind = "raise"
    /\ \E i \in 1..Len(log) :
           /\ IsEndpointGet(log[i])
           /\ log[i].auth
           /\ Answered(log[i], HTTP_UNAUTHORIZED)

---------------------------------------------------------------------------
(* C5, as claimed: with no authorization failure in between (no 401 on a  *)
(* resource GET, no login refused by the server), the authentication step  *)
(* (line 133 with _login) issues at most one login POST however often it   *)
(* is invoked.                                                             *)
C5_AtMostOnePost ==
    postsSinceDenied <= 1

(* C5, amended: with no 401 in between, at most one login POST succeeds,  *)
(* and no login POST is sent by an authenticated session: after a login    *)
(* that succeeded the next invocation is a no-op.  (A login that failed    *)
(* leaves the session unauthenticated and the next invocation POSTs again.)*)
C5_AtMostOneSuccessfulPost ==
    /\ okSince401 <= 1
    /\ InResolve => \A i \in 1..Len(log) : IsPost(log[i]) => ~log[i].auth

\* an earlier call logged in, no 401 since, and this call went straight to
\* its GET
C5_Witness ==
    /\ InResolve
    /\ okSince401 = 1
    /\ Len(log) >= 1
    /\ IsEndpointGet(log[1])

---------------------------------------------------------------------------
(* C6: when the endpoint answers 200 with an object that has a "link"     *)
(* key, _get_resource issues exactly one more GET, to that link, and when  *)
(* that GET answers 200 with a JSON body, returns that body.               *)
C6_LinkFollowedOnce ==
    LET g == GetEntries IN
    (/\ InResolve
     /\ Len(g) >= 1
     /\ Answered(g[1], HTTP_OK)
     /\ HasLinkKey(g[1].res.body))
    => \/ pc = "link" /\ Len(g) = 1
       \/ /\ Ended
          /\ Len(g) = 2
          /\ g[2].url = g[1].res.body.link
          /\ (Answered(g[2], HTTP_OK) /\ g[2].res.body.type # "notjson")
                => outcome = Return(g[2].res.body)

\* envelope first, then the list behind the link, returned
C6_Witness ==
    LET g == GetEntries IN
    /\ InResolve
    /\ Ended
    /\ Len(g) = 2
    /\ HasLinkKey(g[1].res.body)
    /\ g[2].res = Response(HTTP_OK, JList(<<"e1">>))
    /\ outcome = Return(JList(<<"e1">>))

---------------------------------------------------------------------------
(* C7: when the session is authenticated and the endpoint answers 200     *)
(* with an array, or with an object without a "link" key, _get_resource    *)
(* returns that body as it is and issues no second GET.                    *)
C7_InlineReturnedVerbatim ==
    LET g == GetEntries IN
    (/\ InResolve
     /\ Len(g) >= 1
     /\ g[1].auth
     /\ Answered(g[1], HTTP_OK)
     /\ g[1].res.body.type \in {"list", "dict"}
     /\ ~HasLinkKey(g[1].res.body))
    => /\ Ended
       /\ Len(g) = 1
       /\ outcome = Return(g[1].res.body)

\* an object without a "link" key came back from the endpoint and was returned
C7_Witness ==
    /\ InResolve
    /\ Ended
    /\ Len(GetEntries) = 1
    /\ GetEntries[1].res = Response(HTTP_OK, JDict(<<"authcode">>, "", TRUE))
    /\ outcome = Return(JDict(<<"authcode">>, "", TRUE))

---------------------------------------------------------------------------
(* C8, as claimed: _get_resource returns a document only if every GET it  *)
(* issued answered 200, and a GET that answers another status makes the    *)
(* call end in RuntimeError.                                               *)
C8_BadStatusRaisesRuntimeError ==
    (InResolve /\ Ended) =>
        /\ ReturnedDoc =>
               \A i \in 1..Len(log) : IsGet(log[i]) => Answered(log[i], HTTP_OK)
        /\ (\E i \in 1..Len(log) :
               /\ IsGet(log[i])
               /\ log[i].res.kind = "response"
               /\ log[i].res.status # HTTP_OK)
           => (outcome.kind = "raise" /\ outcome.exc = "RuntimeError")

---------------------------------------------------------------------------
(* C9: for a manifest with N file names _get_chunks issues its GETs one   *)
(* at a time, the i-th to base_download_url + chunk_file_names[i]; when it *)
(* returns it has issued exactly N of them, and what it returns is the     *)
(* chunks' arrays joined in manifest order, their elements side by side.   *)

\* the arrays of the first k answers in the log, joined left to right
RECURSIVE JoinedArrays(_)
JoinedArrays(k) ==
    IF k = 0 THEN <<>> ELSE JoinedArrays(k - 1) \o log[k].res.body.items

C9_ChunksFetchedAndJoinedInOrder ==
    InChunks =>
        LET names == chunks.chunk_file_names
            N == Len(names)
        IN  /\ Len(log) <= N
            /\ \A i \in 1..Len(log) :
                   /\ IsGet(log[i])
                   /\ log[i].url = chunks.base_download_url \o names[i]
            /\ (Ended /\ outcome.kind = "return") =>
                   /\ Len(log) = N
                   /\ (\A i \in 1..N : log[i].res.body.type = "list")
                          => outcome.value = JList(JoinedArrays(N))

\* two chunks, c2.json before c1.json, answered [e1] and [e2]: [e1, e2] returned
C9_Witness ==
    /\ InChunks
    /\ Ended
    /\ chunks.chunk_file_names = <<"c2.json", "c1.json">>
    /\ Len(log) = 2
    /\ log[1].res.body = JList(<<"e1">>)
    /\ log[2].res.body = JList(<<"e2">>)
    /\ outcome = Return(JList(<<"e1", "e2">>))

---------------------------------------------------------------------------
(* C10: on a manifest whose chunk_file_names is empty _get_chunks issues  *)
(* no GET and returns the empty list.                                      *)
C10_EmptyManifest ==
    (InChunks /\ chunks.chunk_file_names = <<>>) =>
        /\ log = <<>>
        /\ pc = "idle" => outcome = Return(JList(<<>>))

\* the call on the empty manifest has returned
C10_Witness ==
    /\ InChunks
    /\ chunks.chunk_file_names = <<>>
    /\ log = <<>>
    /\ outcome = Return(JList(<<>>))

---------------------------------------------------------------------------
(* C11, as claimed: when a GET of a resolve call (of the endpoint or of   *)
(* the link) fails with a connection error of the network level,           *)
(* _get_resource returns None and raises nothing.                          *)

\* the exceptions with which a connection failure comes out of session.get
ConnectionErrors == {"requests.ConnectionError", "ConnectionError"}

C11_ConnectionErrorGivesNone ==
    (/\ InResolve
     /\ Ended
     /\ \E i \in 1..Len(log) :
            /\ IsGet(log[i])
            /\ log[i].res.kind = "raise"
            /\ log[i].res.exc \in ConnectionErrors)
    => outcome = Return(PyNone)

---------------------------------------------------------------------------
(* C12: when the login POST times out or cannot connect, _login raises,   *)
(* the session stays unauthenticated, the resolve call around it issues    *)
(* neither a GET nor a second POST, and the error reaches the caller of    *)
(* _get_resource as RuntimeError.                                          *)

\* what session.post raises on a timeout and on a failed connection (lines 103-106)
LoginTransportFailures == {"requests.Timeout", "requests.ConnectionError"}

C12_LoginTransportFailureIsFatal ==
    (/\ InResolve
     /\ \E i \in 1..Len(log) :
            /\ IsPost(log[i])
            /\ log[i].res.kind = "raise"
            /\ log[i].res.exc \in LoginTransportFailures)
    => /\ Ended
       /\ ~authenticated
       /\ Len(log) = 1
       /\ outcome.kind = "raise"
       /\ outcome.exc = "RuntimeError"

\* a resolve call whose login POST timed out
C12_Witness ==
    /\ InResolve
    /\ Ended
    /\ Len(log) = 1
    /\ IsPost(log[1])
    /\ log[1].res = Raised("requests.Timeout")
    /\ outcome.kind = "raise"

---------------------------------------------------------------------------
(* C13, as claimed: a login answer with a status other than 200, or with  *)
(* a JSON body that lacks the authcode field or carries a falsy one, ends  *)
(* _login in the same RuntimeError and leaves the session unauthenticated. *)
(* (Stated for answers whose body is a JSON object.)                       *)
C13_RejectedLoginRaisesRuntimeError ==
    (/\ InResolve
     /\ \E i \in 1..Len(log) :
            /\ IsPost(log[i])
            /\ log[i].res.kind = "response"
            /\ log[i].res.body.type = "dict"
            /\ \/ log[i].res.status # HTTP_OK
               \/ ~(\E k \in DOMAIN log[i].res.body.keys :
                        log[i].res.body.keys[k] = "authcode")
               \/ ~log[i].res.body.authcode)
    => /\ Ended
       /\ ~authenticated
       /\ outcome.kind = "raise"
       /\ outcome.exc = "RuntimeError"

---------------------------------------------------------------------------
(* C18: the session starts unauthenticated, and self.authenticated goes   *)
(* from false to true only in a step that completes a login POST answered  *)
(* with status 200 and a JSON object whose authcode is truthy.             *)
C18_AuthenticatedOnlyByLogin ==
    /\ authenticated = FALSE
    /\ [][ (~authenticated /\ authenticated') =>
              /\ Len(log') = Len(log) + 1
              /\ LET e == log'[Len(log')] IN
                 /\ IsPost(e)
                 /\ e.url = LoginURL
                 /\ Answered(e, HTTP_OK)
                 /\ e.res.body.type = "dict"
                 /\ \E k \in DOMAIN e.res.body.keys : e.res.body.keys[k] = "authcode"
                 /\ e.res.body.authcode ]_vars

\* a login has succeeded
C18_Witness ==
    /\ authenticated
    /\ Len(log) >= 1
    /\ IsPost(log[1])
    /\ log[1].res = Response(HTTP_OK, JDict(<<"authcode">>, "", TRUE))

---------------------------------------------------------------------------
---------------------------------------------------------------------------
(* Claims about the endpoint methods *)

\* an endpoint method was called and has ended
MethodEnded == method # "none" /\ result.kind # "pending"
\* its call of _get_resource is the call that ended last
ResolveEndedInMethod == MethodEnded /\ InResolve /\ Ended

(* C14: when _get_resource fails with a RuntimeError inside an endpoint   *)
(* method (bad status, or failed login), the method prints its one-line    *)
(* diagnostic and returns None; the error does not reach the caller.       *)
C14_MethodCatchesRuntimeError ==
    (/\ ResolveEndedInMethod
     /\ outcome.kind = "raise"
     /\ outcome.exc = "RuntimeError")
    => /\ result = Return(PyNone)
       /\ printed

\* a chunked method ended so, after a GET answered 500
C14_Witness ==
    /\ ResolveEndedInMethod
    /\ method = "result_event_log"
    /\ outcome.kind = "raise"
    /\ outcome.exc = "RuntimeError"
    /\ Len(log) > 0
    /\ Answered(log[Len(log)], 500)
    /\ result = Return(PyNone)
    /\ printed

(* C15, as claimed: a non-chunked endpoint method, called with its        *)
(* required parameter and without export, ends by returning a JSON value   *)
(* or None whatever the login POST and the GETs end in; no exception       *)
(* reaches the caller.                                                     *)
C15_NonChunkedMethodNeverRaises ==
    (/\ MethodEnded
     /\ ~Chunked(method)
     /\ param
     /\ ~export)
    => result.kind = "return"

(* C17, as claimed: when its resolution succeeds, league_membership       *)
(* returns the data that _get_resource handed back.                        *)
C17_LeagueMembershipReturnsData ==
    (/\ ResolveEndedInMethod
     /\ method = "league_membership"
     /\ ReturnedDoc
     /\ result.kind = "return")
    => result.value = outcome.value

(* C19: the flag goes from true to false only in a step of the resolver   *)
(* in which the GET of the endpoint URL was answered 401; every other      *)
(* step (other answers, the link GET, the chunk GETs and their joining,    *)
(* the export, the parameter test, the return to the caller) leaves an     *)
(* authenticated session authenticated.                                    *)
C19_UnauthenticatedOnlyByEndpoint401 ==
    [][ (authenticated /\ ~authenticated') =>
            /\ pc = "rol"
            /\ Len(log') = Len(log) + 1
            /\ LET e == log'[Len(log')]
               IN  /\ IsGet(e)
                   /\ e.url = request_url
                   /\ e.auth
                   /\ Answered(e, HTTP_UNAUTHORIZED) ]_vars

\* an endpoint method of an authenticated session met a 401 and ended with
\* None: the session is unauthenticated
C19_Witness ==
    /\ ResolveEndedInMethod
    /\ Len(log) = 1
    /\ IsEndpointGet(log[1])
    /\ log[1].auth
    /\ Answered(log[1], HTTP_UNAUTHORIZED)
    /\ ~authenticated
    /\ result = Return(PyNone)

---------------------------------------------------------------------------
(* Claims about the cookie file and the credential, under SpecLogin *)

\* a _login call made by the caller has ended
LoginEnded == op = "_login" /\ Ended
\* the server accepted the login: status 200 and a true "authcode"
Accepted(t) ==
    /\ t.kind = "response"
    /\ t.status = HTTP_OK
    /\ t.body.type = "dict"
    /\ HasKey(t.body, "authcode")
    /\ t.body.authcode

(* C21: in a _login call with a cookie file, the first thing done is the  *)
(* save of a fresh jar when the file is missing, the load of the file when *)
(* it is there; the login POST comes after it; the jar is saved after the  *)
(* POST when the server accepted the login, and not when it did not.       *)
C21_CookieFileSavedAndLoaded ==
    [][ (AtRest /\ op' = "_login" /\ cookie_file' # NoCookieFile) =>
            /\ Len(log') >= 1
            /\ log'[1].method = IF cookie_exists THEN "cookies.load" ELSE "cookies.save"
            /\ log'[1].url = cookie_file'
            /\ \A i \in 1..Len(log') : IsPost(log'[i]) => i = 2
            /\ log'[1].res.kind = "raise" => Len(log') = 1
            /\ log'[1].res.kind # "raise" =>
                   /\ Len(log') >= 2
                   /\ IsPost(log'[2])
                   /\ IF Accepted(log'[2].res)
                      THEN /\ Len(log') = 3
                           /\ log'[3].method = "cookies.save"
                           /\ log'[3].url = cookie_file'
                      ELSE Len(log') = 2 ]_vars

\* the file was there: it was loaded, the login was accepted, the jar saved
C21_Witness ==
    /\ LoginEnded
    /\ cookie_file # NoCookieFile
    /\ Len(log) = 3
    /\ log[1].method = "cookies.load"
    /\ Accepted(log[2].res)
    /\ log[3].method = "cookies.save"
    /\ authenticated

(* C22: encoded_password is the value the constructor derived from its     *)
(* arguments, whatever was called since (logins, resolves, endpoint        *)
(* methods with their chunk assembly and export), and every login POST     *)
(* carries it.                                                             *)
C22_EncodedPasswordFixed ==
    /\ encoded_password = _encode_password(username, _password)
    /\ \A i \in 1..Len(log) :
           IsPost(log[i]) => log[i].data.password = _encode_password(username, _password)

\* after a login of an earlier call that did not get through, a resolve
\* call has posted its login with the credential and has gone on to its GET
C22_Witness ==
    /\ InResolve
    /\ Len(log) >= 2
    /\ IsPost(log[1])
    /\ log[1].data.password = encoded_password
    /\ postsSinceDenied >= 2

(* C30: the credential is the same for every username that differs from   *)
(* the one given only in letter case, and the login request's email field  *)
(* is the username as given.                                               *)
C30_CredentialIgnoresUsernameCase ==
    /\ \A user \in Usernames :
           Lower(user) = Lower(username) =>
               _encode_password(user, _password) = encoded_password
    /\ \A i \in 1..Len(log) : IsPost(log[i]) => log[i].data.email = username

\* a client built with a username in upper case has posted its login
C30_Witness ==
    /\ username # Lower(username)
    /\ \E user \in Usernames : user # username /\ Lower(user) = Lower(username)
    /\ \E i \in 1..Len(log) : IsPost(log[i]) /\ log[i].data.email = username

---------------------------------------------------------------------------
(* Claims about the chunked endpoint methods and the export *)

\* the call of _get_chunks of an endpoint method is the call that ended last
ChunksEndedInMethod == MethodEnded /\ InChunks /\ Ended

(* C23: when _get_chunks fails inside a chunked endpoint method (a chunk   *)
(* GET raises, a chunk body is not JSON or cannot be walked), the method   *)
(* ends with that exception: it returns neither None nor a partial list.   *)
C23_ChunkFailurePropagates ==
    (ChunksEndedInMethod /\ outcome.kind = "raise")
    => result = Raise(outcome.exc, outcome.value)

\* result_lap_data, which calls _get_chunks inside its try, ended with the
\* exception of the second chunk
C23_Witness ==
    /\ ChunksEndedInMethod
    /\ method = "result_lap_data"
    /\ Len(log) = 2
    /\ outcome.kind = "raise"
    /\ result.kind = "raise"
    /\ result.exc = outcome.exc

(* C24, as claimed: an endpoint method called with export, whose           *)
(* resolution handed a document back, returns, whatever step of the export *)
(* failed.                                                                 *)
C24_ExportFailureNotFatal ==
    (/\ ResolveEndedInMethod
     /\ ~Chunked(method)
     /\ export
     /\ ReturnedDoc)
    => result.kind = "return"

(* C29, as claimed: when _get_resource returns None inside a chunked       *)
(* endpoint method, the method returns None.                               *)
C29_NoneInChunkedMethodGivesNone ==
    (/\ ResolveEndedInMethod
     /\ Chunked(method)
     /\ outcome = Return(PyNone))
    => result = Return(PyNone)

(* C28: an endpoint method called without its required parameter issues    *)
(* no login POST and no GET, and leaves the authenticated flag as it was.  *)
C28_MissingParameterNoNetwork ==
    [][ (AtRest /\ method' # "none" /\ ~param') =>
            /\ log' = <<>>
            /\ result'.kind # "pending"
            /\ authenticated' = authenticated ]_vars

\* an authenticated session: result_event_log without subsession_id has
\* raised, nothing was sent, the session is still authenticated
C28_Witness ==
    /\ MethodEnded
    /\ method = "result_event_log"
    /\ ~param
    /\ log = <<>>
    /\ result.kind = "raise"
    /\ authenticated

---------------------------------------------------------------------------
(* Claims about successive resolve calls *)

\* the endpoint GET of the running resolve call was answered with a status
\* that is neither 200 nor 401
EndpointAnsweredError ==
    \E i \in 1..Len(log) :
        /\ IsEndpointGet(log[i])
        /\ log[i].res.kind = "response"
        /\ log[i].res.status \notin {HTTP_OK, HTTP_UNAUTHORIZED}

C26_ResolveTerminates ==
    /\ [](InResolve =>
             /\ Len(PostEntries) <= 1
             /\ Len(GetEntries) <= 2
             /\ Len(GetEntries) = 2 => Ended)
    /\ ((pc \in {"rol", "link"}) ~> (pc = "idle" /\ outcome.kind # "pending"))

\* one POST and two GETs; the second body holds a link and is handed back
C26_Witness ==
    /\ InResolve
    /\ Ended
    /\ Len(PostEntries) = 1
    /\ Len(GetEntries) = 2
    /\ HasLinkKey(GetEntries[2].res.body)
    /\ Answered(GetEntries[2], HTTP_OK)
    /\ outcome = Return(GetEntries[2].res.body)

(* C27: a resolve call whose endpoint GET was answered with a status other *)
(* than 200 and 401 fails and leaves the session authenticated; the        *)
(* resolve call after it issues no login POST.                             *)
C27_ErrorStatusKeepsSession ==
    /\ (InResolve /\ Ended /\ EndpointAnsweredError) =>
           /\ outcome.kind = "raise"
           /\ authenticated
    /\ (prev_get = "error" /\ InResolve) =>
           \A i \in 1..Len(log) : ~IsPost(log[i])

\* the call after one answered 500 went straight to its GET and returned
C27_Witness ==
    /\ prev_get = "error"
    /\ InResolve
    /\ Ended
    /\ Len(log) >= 1
    /\ IsEndpointGet(log[1])
    /\ log[1].auth
    /\ outcome.kind = "return"

====
